---------------------------- MODULE Spec2Model ----------------------------
(***************************************************************************)
(* Model of streamlit_app.py: the brain-tumour classification demo.  The   *)
(* script is re-executed top to bottom on every user interaction; one      *)
(* execution is a "run".  The file system (models/, saliency_maps/) and    *)
(* the process environment persist between runs, the module-level names    *)
(* (uploaded_file, img, model, ...) are rebound by every run.              *)
(*                                                                         *)
(* Calls into TensorFlow, OpenCV, gdown and the generative service are     *)
(* opaque: a network's output is any length-4 probability vector, its      *)
(* gradient is a term over the arguments it is computed from, and a call   *)
(* that can raise is a choice between returning and raising.               *)
(***************************************************************************)
EXTENDS Integers, Sequences, FiniteSets, TLC

(***************************************************************************)
(* Bounds of the model.                                                    *)
(***************************************************************************)
MaxRuns == 2        \* script runs explored
ProbUnits == 2      \* a probability is k/ProbUnits, a vector sums to 1
GridSize == 24      \* side of the saliency grid explored by SpecSaliency
PatLen == 3         \* period of the gradient patterns SpecSaliency draws
MaxGrad == 3        \* largest gradient magnitude SpecSaliency draws

(***************************************************************************)
(* Program constants.                                                      *)
(***************************************************************************)
XceptionSide == 299     \* img_shape / img_size of the Xception variant
CnnSide == 224          \* img_size of the custom CNN variant
PixelMax == 255         \* img_array /= 255.0
MaskMargin == 10        \* radius = min(center) - 10
Percentile == 80        \* np.percentile(gradients[mask], 80)

\* Unbound names and missing files, one per kind of value.
None == [kind |-> "None"]       \* an unbound object
Unset == "None"                 \* an unbound string
NoIndex == 0                    \* an unbound class index (indices are 1..4)
NoFile == "NoFile"              \* a weight path that does not exist
NoImageFile == [kind |-> "absent"]  \* a saliency path that does not exist

labels == <<"Glioma", "Meningioma", "No Tumor", "Pituitary">>
ModelChoices == {"Transfer Learning - Xception", "Custom CNN"}
output_dir == "saliency_maps"
cnn_path == "models/cnn_model.h5"
xception_path == "models/xception_model.weights.h5"
ModelPaths == {cnn_path, xception_path}

\* What the remote host serves for each of the two file ids.
cnn_id == "1x9t4iiOryE2jNJ8OCcWgkbNe17YXlPnU"
xception_id == "10tcxflFgOtgrTXDR_fMj_3Dr4oM_rbsm"
RemoteFile(id) == IF id = cnn_id THEN "cnn_model" ELSE "xception_weights"

(***************************************************************************)
(* Inputs: the uploads a user can make.  A picture is a uniform image of   *)
(* w x h pixels, every channel of every pixel holding px; a file is a      *)
(* picture under a name whose extension the uploader accepts.              *)
(***************************************************************************)
Names == {"scan.png", "scan.jpg", "scan.jpeg"}
Pictures == {[size |-> <<224, 224>>, px |-> 0],
             [size |-> <<224, 224>>, px |-> 255],
             [size |-> <<640, 480>>, px |-> 255]}
Uploads == [name : Names, picture : Pictures]
\* GOOGLE_API_KEY in the environment and in the secrets store: absent from
\* both, or found in the secrets only, or found in the environment (which
\* line 19 consults first) next to a different one in the secrets.
KeyStates == {"absent", "valid", "invalid"}
KeyConfigs == {<<"absent", "absent">>, <<"absent", "valid">>,
               <<"absent", "invalid">>, <<"valid", "invalid">>,
               <<"invalid", "valid">>}

\* The image format cv2.imwrite selects from a file name's extension.
Format(name) == IF name = "scan.png" THEN "png" ELSE "jpeg"

\* A path is the sequence of its components: os.path.join(dir, name) of
\* line 95 and the f-string 'saliency_maps/{name}' of lines 99 and 227.
JoinPath(dir, name) == <<dir, name>>
SaliencyPath(name) == <<"saliency_maps", name>>
SaliencyPaths == {JoinPath(output_dir, n) : n \in Names}

(***************************************************************************)
(* Probability vectors: 4 naturals summing to ProbUnits.                   *)
(***************************************************************************)
Predictions ==
    {p \in [1..4 -> 0..ProbUnits] : p[1] + p[2] + p[3] + p[4] = ProbUnits}

\* np.argmax: a left-to-right scan that keeps the first largest element.
RECURSIVE ArgMaxScan(_, _, _)
ArgMaxScan(p, i, best) ==
    IF i > Len(p) THEN best
    ELSE ArgMaxScan(p, i + 1, IF p[i] > p[best] THEN i ELSE best)

ArgMaxLast(p) == CHOOSE i \in 1..Len(p) :
    /\ \A j \in 1..Len(p) : p[j] <= p[i]
    /\ \A j \in (i+1)..Len(p) : p[j] < p[i]

ArgMax(p) == ArgMaxScan(p, 2, 1)

(***************************************************************************)
(* Preprocessing (lines 201-204).                                          *)
(***************************************************************************)
\* image.load_img(file, target_size): decode, convert to RGB, resize.
LoadImg(file, size) ==
    [size |-> size, channels |-> 3, px |-> file.picture.px]

\* image.img_to_array then np.expand_dims(axis=0): a float batch of one.
ExpandDims(im) ==
    [shape |-> <<1, im.size[1], im.size[2], im.channels>>,
     val |-> [n |-> im.px, d |-> 1]]

ScaleUnscaled(arr) == arr

\* img_array /= 255.0
Scale(arr) == [arr EXCEPT !.val = [n |-> arr.val.n, d |-> arr.val.d * PixelMax]]

\* The img_size each branch of lines 191-196 pairs with its model.
SizeOf(choice) ==
    IF choice = "Transfer Learning - Xception"
    THEN <<XceptionSide, XceptionSide>> ELSE <<CnnSide, CnnSide>>

\* The weight file each branch loads, out of the pair download_models returned.
PathOf(choice, pair) ==
    IF choice = "Transfer Learning - Xception" THEN pair[2] ELSE pair[1]

\* What each loader needs to find in its file.
Needs(choice) ==
    IF choice = "Transfer Learning - Xception"
    THEN "xception_weights" ELSE "cnn_model"

\* The input shape of the network each loader builds (batch dimension free).
InputShape(choice) ==
    IF choice = "Transfer Learning - Xception"
    THEN <<XceptionSide, XceptionSide, 3>> ELSE <<CnnSide, CnnSide, 3>>

(***************************************************************************)
(* Saliency rendering on opaque tensors (lines 55-93): the gradient of the *)
(* class score is a term over what it is computed from, and so are the     *)
(* heat map and the blend.                                                 *)
(***************************************************************************)
\* tape.gradient of the class score with respect to the input, lines 55-65.
Gradient(m, arr, ci) == [model |-> m, input |-> arr, class |-> ci]
Heatmap(g, size) == [gradient |-> g, size |-> size]
Superimpose(heat, original) == [heatmap |-> heat, original |-> original]

\* cv2.imwrite: the composite encoded in the format the extension selects.
Encode(composite, name) ==
    [kind |-> "composite", format |-> Format(name), image |-> composite]
RawFile(file) == [kind |-> "raw", image |-> file.picture]

GenerateConfidenceGraph(p) ==
    [x |-> labels, y |-> [i \in 1..4 |-> p[i] * 100]]

(***************************************************************************)
(* State.                                                                  *)
(***************************************************************************)
VARIABLES
    envKey,          \* GOOGLE_API_KEY in os.environ (after load_dotenv)
    secretKey,       \* GOOGLE_API_KEY in st.secrets
    fsModels,        \* contents of the two weight paths
    fsSaliency,      \* contents of saliency_maps/<name>
    dirs,            \* directories made by os.makedirs
    runs,            \* number of the current script run
    history,         \* the finished runs: their upload and saliency call
    dlAttempts,      \* gdown.download calls per path, over all runs
    dlOk,            \* gdown.download calls that fetched the file, per path
    pc,              \* position of the current run in the script
    failedAt,        \* the stage whose exception ended the run
    api_key,         \* line 19-23
    paths,           \* cnn_path, xception_path = download_models()
    uploaded_file, selected_model, model, img_size, img, img_array,
    prediction, class_index, result, superimposed_img, saliency_map,
    call,            \* this run's generate_saliency_map call
    confidence_graph,
    llmCalls,        \* generate_content calls of this run
    llmRequest,      \* what the last generate_content call was given
    explanation,
    ui,              \* the elements this run has put on the page, in order
    stages,          \* the stages this run has completed, in order
    gradients,       \* SpecSaliency: the local gradients of lines 67-83
    resized,         \* SpecSaliency: the value line 67 gave gradients
    spc              \* SpecSaliency: position in lines 67-83

envVars == <<envKey, secretKey>>
fsVars == <<fsModels, fsSaliency, dirs>>
ghostVars == <<runs, history, dlAttempts, dlOk>>
dataVars == <<selected_model, model, img_size, img, img_array, prediction,
              class_index, result, superimposed_img, saliency_map, call,
              confidence_graph, explanation>>
llmVars == <<llmCalls, llmRequest>>
gridVars == <<gradients, resized, spc>>
vars == <<envKey, secretKey, fsModels, fsSaliency, dirs, runs, history,
          dlAttempts, dlOk, pc, failedAt, api_key, paths, uploaded_file,
          selected_model, model, img_size, img, img_array, prediction,
          class_index, result, superimposed_img, saliency_map, call,
          confidence_graph, llmCalls, llmRequest, explanation, ui, stages,
          gradients, resized, spc>>

\* The module-level names of a run before the script has bound them.
FreshRun ==
    /\ pc = "start"
    /\ failedAt = Unset
    /\ api_key = Unset
    /\ paths = <<>>
    /\ uploaded_file = None
    /\ selected_model = Unset
    /\ model = None
    /\ img_size = <<>>
    /\ img = None
    /\ img_array = None
    /\ prediction = <<>>
    /\ class_index = NoIndex
    /\ result = Unset
    /\ superimposed_img = None
    /\ saliency_map = None
    /\ call = None
    /\ confidence_graph = None
    /\ llmCalls = 0
    /\ llmRequest = None
    /\ explanation = Unset
    /\ ui = <<>>
    /\ stages = <<>>

\* The same names rebound by the start of the next run.
FreshRunNext ==
    /\ pc' = "start"
    /\ failedAt' = Unset
    /\ api_key' = Unset
    /\ paths' = <<>>
    /\ uploaded_file' = None
    /\ selected_model' = Unset
    /\ model' = None
    /\ img_size' = <<>>
    /\ img' = None
    /\ img_array' = None
    /\ prediction' = <<>>
    /\ class_index' = NoIndex
    /\ result' = Unset
    /\ superimposed_img' = None
    /\ saliency_map' = None
    /\ call' = None
    /\ confidence_graph' = None
    /\ llmCalls' = 0
    /\ llmRequest' = None
    /\ explanation' = Unset
    /\ ui' = <<>>
    /\ stages' = <<>>

Init ==
    /\ \E k \in KeyConfigs : envKey = k[1] /\ secretKey = k[2]
    /\ fsModels = [p \in ModelPaths |-> NoFile]
    /\ fsSaliency = [f \in SaliencyPaths |-> NoImageFile]
    /\ dirs = {}
    /\ runs = 1
    /\ history = <<>>
    /\ dlAttempts = [p \in ModelPaths |-> 0]
    /\ dlOk = [p \in ModelPaths |-> 0]
    /\ FreshRun
    /\ gradients = <<>>
    /\ resized = <<>>
    /\ spc = "off"

(***************************************************************************)
(* The script is straight-line code: the statements of lines 17-230 in the *)
(* order of the text.  Follows(p) is the statement group after p.          *)
(***************************************************************************)
ScriptExplainFirst ==
    <<"start", "title", "download_cnn", "download_xception", "uploader",
      "radio", "load", "preprocess", "predict", "explain", "saliency",
      "saliency_write_raw", "saliency_write_composite", "images", "chart",
      "show_explanation", "done">>

Script ==
    <<"start", "title", "download_cnn", "download_xception", "uploader",
      "radio", "load", "preprocess", "predict", "saliency",
      "saliency_write_raw", "saliency_write_composite", "images", "chart",
      "explain", "show_explanation", "done">>

Follows(p) ==
    Script[(CHOOSE i \in 1..(Len(Script) - 1) : Script[i] = p) + 1]

\* An uncaught exception ends the run where it is raised.
Raise(stage) ==
    /\ pc' = "failed"
    /\ failedAt' = stage

(***************************************************************************)
(* Lines 17-26: resolve the key, configure the client, make output_dir.    *)
(* genai.configure stores the key; it sends nothing to the service.        *)
(***************************************************************************)
ResolveKeyEnvOnly ==
    IF envKey # "absent" THEN envKey ELSE "absent"

ResolveKey ==
    IF envKey # "absent" THEN envKey ELSE secretKey

ModuleInit ==
    /\ pc = "start"
    /\ IF ResolveKey = "absent"
       THEN /\ Raise("secrets")
            /\ UNCHANGED <<api_key, dirs>>
       ELSE /\ api_key' = ResolveKey
            /\ dirs' = dirs \cup {output_dir}
            /\ pc' = Follows("start")
            /\ UNCHANGED failedAt
    /\ UNCHANGED <<envVars, fsModels, fsSaliency, ghostVars, paths,
                   uploaded_file, dataVars, llmVars, ui, stages, gridVars>>

\* Lines 179-180.
Title ==
    /\ pc = "title"
    /\ ui' = ui \o <<"title", "intro">>
    /\ pc' = Follows("title")
    /\ UNCHANGED <<envVars, fsVars, ghostVars, failedAt, api_key, paths,
                   uploaded_file, dataVars, llmVars, stages, gridVars>>

(***************************************************************************)
(* download_models (lines 156-176).  gdown.download either fetches the     *)
(* file, leaves a truncated file behind and returns, or raises.            *)
(***************************************************************************)
ExistsNever(fs, path) == FALSE

\* os.path.exists
Exists(fs, path) == fs[path] # NoFile

DownloadOutcomes == {"fetched", "truncated", "raised"}

\* One `if not os.path.exists(path): gdown.download(url, path)` statement.
DownloadIfMissing(path, id, next) ==
    IF Exists(fsModels, path)
    THEN /\ pc' = next
         /\ UNCHANGED <<fsModels, dlAttempts, dlOk, failedAt>>
    ELSE \E outcome \in DownloadOutcomes :
         /\ dlAttempts' = [dlAttempts EXCEPT ![path] = @ + 1]
         /\ CASE outcome = "fetched" ->
                   /\ fsModels' = [fsModels EXCEPT ![path] = RemoteFile(id)]
                   /\ dlOk' = [dlOk EXCEPT ![path] = @ + 1]
                   /\ pc' = next
                   /\ UNCHANGED failedAt
              [] outcome = "truncated" ->
                   /\ fsModels' = [fsModels EXCEPT ![path] = "truncated"]
                   /\ pc' = next
                   /\ UNCHANGED <<dlOk, failedAt>>
              [] OTHER ->
                   /\ Raise("download")
                   /\ UNCHANGED <<fsModels, dlOk>>

\* Lines 158-169.
DownloadCnn ==
    /\ pc = "download_cnn"
    /\ dirs' = dirs \cup {"models"}
    /\ DownloadIfMissing(cnn_path, cnn_id, Follows("download_cnn"))
    /\ UNCHANGED <<envVars, fsSaliency, runs, history, api_key, paths,
                   uploaded_file, dataVars, llmVars, ui, stages, gridVars>>

\* Line 176.
ReturnedPair == <<cnn_path, xception_path>>

\* Lines 171-176 and the assignment of line 181.
DownloadXception ==
    /\ pc = "download_xception"
    /\ DownloadIfMissing(xception_path, xception_id,
                         Follows("download_xception"))
    /\ paths' = IF pc' = "failed" THEN paths ELSE ReturnedPair
    /\ UNCHANGED <<envVars, fsSaliency, dirs, runs, history, api_key,
                   uploaded_file, dataVars, llmVars, ui, stages, gridVars>>

\* Line 182-184: the uploader widget yields the session's file, or None.
Uploader ==
    /\ pc = "uploader"
    /\ \E f \in Uploads \cup {None} :
         /\ uploaded_file' = f
         /\ ui' = Append(ui, "uploader")
         /\ IF f = None
            THEN pc' = "done" /\ UNCHANGED stages
            ELSE pc' = Follows("uploader") /\ stages' = Append(stages, "upload")
    /\ UNCHANGED <<envVars, fsVars, ghostVars, failedAt, api_key, paths,
                   dataVars, llmVars, gridVars>>

\* Lines 186-189.
SelectModel ==
    /\ pc = "radio"
    /\ \E choice \in ModelChoices : selected_model' = choice
    /\ ui' = Append(ui, "radio")
    /\ stages' = Append(stages, "select")
    /\ pc' = Follows("radio")
    /\ UNCHANGED <<envVars, fsVars, ghostVars, failedAt, api_key, paths,
                   uploaded_file, model, img_size, img, img_array, prediction,
                   class_index, result, superimposed_img, saliency_map, call,
                   confidence_graph, explanation, llmVars, gridVars>>

LoadableIfExists(choice, pair) == fsModels[PathOf(choice, pair)] # NoFile

\* load_xception_model / load_model: the loader reads the file or raises.
Loadable(choice, pair) == fsModels[PathOf(choice, pair)] = Needs(choice)

\* Lines 191-196.
LoadModel ==
    /\ pc = "load"
    /\ IF Loadable(selected_model, paths)
       THEN /\ model' = [variant |-> selected_model,
                         input_shape |-> InputShape(selected_model)]
            /\ img_size' = SizeOf(selected_model)
            /\ stages' = Append(stages, "load")
            /\ pc' = Follows("load")
            /\ UNCHANGED failedAt
       ELSE /\ Raise("load")
            /\ UNCHANGED <<model, img_size, stages>>
    /\ UNCHANGED <<envVars, fsVars, ghostVars, api_key, paths, uploaded_file,
                   selected_model, img, img_array, prediction, class_index,
                   result, superimposed_img, saliency_map, call,
                   confidence_graph, explanation, llmVars, ui, gridVars>>

\* Lines 198-204.
Preprocess ==
    /\ pc = "preprocess"
    /\ img' = LoadImg(uploaded_file, img_size)
    /\ img_array' = Scale(ExpandDims(img'))
    /\ stages' = Append(stages, "preprocess")
    /\ pc' = Follows("preprocess")
    /\ UNCHANGED <<envVars, fsVars, ghostVars, failedAt, api_key, paths,
                   uploaded_file, selected_model, model, img_size, prediction,
                   class_index, result, superimposed_img, saliency_map, call,
                   confidence_graph, explanation, llmVars, ui, gridVars>>

\* Lines 206-214: the network's output, the reported class, the two writes.
Predict ==
    /\ pc = "predict"
    /\ \E p \in Predictions : prediction' = p
    /\ class_index' = ArgMax(prediction')
    /\ result' = labels[class_index']
    /\ ui' = ui \o <<"label", "probabilities">>
    /\ stages' = Append(stages, "predict")
    /\ pc' = Follows("predict")
    /\ UNCHANGED <<envVars, fsVars, ghostVars, failedAt, api_key, paths,
                   uploaded_file, selected_model, model, img_size, img,
                   img_array, superimposed_img, saliency_map, call,
                   confidence_graph, explanation, llmVars, gridVars>>

(***************************************************************************)
(* generate_saliency_map(model, img_array, class_index, img_size), called  *)
(* at line 216.  Lines 55-93 compute the composite from the arguments and  *)
(* from the module-level img.  Whether they return depends on the          *)
(* installed TensorFlow: line 57 hands tape.watch the NumPy array          *)
(* img_array, not img_tensor, and line 91 calls image.image_to_array where *)
(* line 202 calls image.img_to_array; so the block either yields the       *)
(* composite or raises.  Lines 95-97 write the upload's bytes, lines       *)
(* 99-102 write the composite and return it.                               *)
(***************************************************************************)
OriginalImgOfUpload == uploaded_file.picture

\* Line 91: the module-level img, not a parameter.
OriginalImg == img

SaliencyCompute ==
    /\ pc = "saliency"
    /\ \/ /\ superimposed_img' =
               Superimpose(Heatmap(Gradient(model, img_array, class_index),
                                   img_size),
                           OriginalImg)
          /\ pc' = Follows("saliency")
          /\ UNCHANGED failedAt
       \/ /\ Raise("saliency")
          /\ UNCHANGED superimposed_img
    /\ UNCHANGED <<envVars, fsVars, ghostVars, api_key, paths, uploaded_file,
                   selected_model, model, img_size, img, img_array, prediction,
                   class_index, result, saliency_map, call, confidence_graph,
                   explanation, llmVars, ui, stages, gridVars>>

\* Lines 95-97.
SaliencyWriteRaw ==
    /\ pc = "saliency_write_raw"
    /\ fsSaliency' =
          [fsSaliency EXCEPT ![JoinPath(output_dir, uploaded_file.name)] =
              RawFile(uploaded_file)]
    /\ pc' = Follows("saliency_write_raw")
    /\ UNCHANGED <<envVars, fsModels, dirs, ghostVars, failedAt, api_key,
                   paths, uploaded_file, dataVars, llmVars, ui, stages,
                   gridVars>>

WrittenRaw(composite, file) == RawFile(file)

\* Line 101: what cv2.imwrite leaves at saliency_maps/<name>.
Written(composite, file) == Encode(composite, file.name)

\* Lines 99-102 and the assignment of line 216.
SaliencyWriteComposite ==
    /\ pc = "saliency_write_composite"
    /\ fsSaliency' =
          [fsSaliency EXCEPT ![SaliencyPath(uploaded_file.name)] =
              Written(superimposed_img, uploaded_file)]
    /\ saliency_map' = superimposed_img
    /\ call' = [model |-> model, img_array |-> img_array,
                class_index |-> class_index, img_size |-> img_size,
                name |-> uploaded_file.name,
                returned |-> superimposed_img,
                written |-> fsSaliency'[SaliencyPath(uploaded_file.name)]]
    /\ stages' = Append(stages, "saliency")
    /\ pc' = Follows("saliency_write_composite")
    /\ UNCHANGED <<envVars, fsModels, dirs, ghostVars, failedAt, api_key,
                   paths, uploaded_file, selected_model, model, img_size, img,
                   img_array, prediction, class_index, result,
                   superimposed_img, confidence_graph, explanation, llmVars,
                   ui, gridVars>>

\* Lines 218-222.
ShowImages ==
    /\ pc = "images"
    /\ ui' = ui \o <<"uploaded_image", "saliency_image">>
    /\ pc' = Follows("images")
    /\ UNCHANGED <<envVars, fsVars, ghostVars, failedAt, api_key, paths,
                   uploaded_file, dataVars, llmVars, stages, gridVars>>

\* Lines 224-225.
ConfidenceChart ==
    /\ pc = "chart"
    /\ confidence_graph' = GenerateConfidenceGraph(prediction)
    /\ ui' = Append(ui, "chart")
    /\ stages' = Append(stages, "chart")
    /\ pc' = Follows("chart")
    /\ UNCHANGED <<envVars, fsVars, ghostVars, failedAt, api_key, paths,
                   uploaded_file, selected_model, model, img_size, img,
                   img_array, prediction, class_index, result,
                   superimposed_img, saliency_map, call, explanation, llmVars,
                   gridVars>>

(***************************************************************************)
(* generate_explanation (lines 28-52), called at line 228 with the path of *)
(* line 227: open the image at the path, send prompt and image in one      *)
(* generate_content call, return response.text.  The service rejects a key *)
(* that is not valid; with a valid key the call may still fail.            *)
(***************************************************************************)
\* The third argument of line 228.
ConfidenceOf(p, ci) == p[ci]

\* The outcomes of model.generate_content under the configured key.
ServiceOutcomes(key) ==
    IF key = "valid" THEN {"text", "error"} ELSE {"error"}

\* The request of lines 48-50: the image at img_path and the prompt's fields.
Request ==
    [image |-> fsSaliency[SaliencyPath(uploaded_file.name)],
     model_prediction |-> result,
     confidence |-> ConfidenceOf(prediction, class_index)]

ExplainRetrying ==
    /\ pc = "explain"
    /\ \E outcome \in ServiceOutcomes(api_key) :
         /\ llmRequest' = Request
         /\ IF outcome = "text"
            THEN /\ llmCalls' = llmCalls + 1
                 /\ explanation' = "response.text"
                 /\ stages' = Append(stages, "explain")
                 /\ pc' = Follows("explain")
                 /\ UNCHANGED failedAt
            ELSE /\ llmCalls' = llmCalls + 2
                 /\ Raise("explain")
                 /\ UNCHANGED <<explanation, stages>>
    /\ UNCHANGED <<envVars, fsVars, ghostVars, api_key, paths, uploaded_file,
                   selected_model, model, img_size, img, img_array, prediction,
                   class_index, result, superimposed_img, saliency_map, call,
                   confidence_graph, ui, gridVars>>

\* Lines 227-228.
Explain ==
    /\ pc = "explain"
    /\ \E outcome \in ServiceOutcomes(api_key) :
         /\ llmCalls' = llmCalls + 1
         /\ llmRequest' = Request
         /\ IF outcome = "text"
            THEN /\ explanation' = "response.text"
                 /\ stages' = Append(stages, "explain")
                 /\ pc' = Follows("explain")
                 /\ UNCHANGED failedAt
            ELSE /\ Raise("explain")
                 /\ UNCHANGED <<explanation, stages>>
    /\ UNCHANGED <<envVars, fsVars, ghostVars, api_key, paths, uploaded_file,
                   selected_model, model, img_size, img, img_array, prediction,
                   class_index, result, superimposed_img, saliency_map, call,
                   confidence_graph, ui, gridVars>>

\* Lines 229-230.
ShowExplanation ==
    /\ pc = "show_explanation"
    /\ ui' = ui \o <<"explanation_header", "explanation">>
    /\ pc' = Follows("show_explanation")
    /\ UNCHANGED <<envVars, fsVars, ghostVars, failedAt, api_key, paths,
                   uploaded_file, dataVars, llmVars, stages, gridVars>>

(***************************************************************************)
(* A user interaction after a run has ended starts the next run: the       *)
(* script is executed again from line 1 with fresh module-level names.     *)
(***************************************************************************)
Rerun ==
    /\ pc \in {"done", "failed"}
    /\ runs < MaxRuns
    /\ runs' = runs + 1
    /\ history' = Append(history, [upload |-> uploaded_file, call |-> call])
    /\ FreshRunNext
    /\ UNCHANGED <<envVars, fsVars, dlAttempts, dlOk, gridVars>>

Next ==
    \/ ModuleInit
    \/ Title
    \/ DownloadCnn
    \/ DownloadXception
    \/ Uploader
    \/ SelectModel
    \/ LoadModel
    \/ Preprocess
    \/ Predict
    \/ SaliencyCompute
    \/ SaliencyWriteRaw
    \/ SaliencyWriteComposite
    \/ ShowImages
    \/ ConfidenceChart
    \/ Explain
    \/ ShowExplanation
    \/ Rerun

Spec == Init /\ [][Next]_vars

(***************************************************************************)
(* Lines 67-83 of generate_saliency_map on concrete numbers.  gradients is *)
(* a GridSize x GridSize array of non-negative magnitudes (line 63 took    *)
(* the absolute value); a value is the fraction n/d, so that the division  *)
(* of line 78 is exact.  SpecSaliency draws the array line 67 produced     *)
(* from the periodic patterns over 0..MaxGrad and runs the three steps.    *)
(***************************************************************************)
Coords == 0..(GridSize - 1)
Cells == Coords \X Coords          \* <<y, x>>

Frac(n, d) == [n |-> n, d |-> d]
Zero == Frac(0, 1)
Less(a, b) == a.n * b.d < b.n * a.d
SameValue(a, b) == a.n * b.d = b.n * a.d

\* Lines 69-72: center, radius and the circular mask.
Center == GridSize \div 2
Radius == Center - MaskMargin
Mask(cell) ==
    (cell[2] - Center) * (cell[2] - Center)
      + (cell[1] - Center) * (cell[1] - Center) <= Radius * Radius
Brain == {c \in Cells : Mask(c)}

\* Line 74: gradients * mask.
ApplyMask(g) == [c \in Cells |-> IF Mask(c) THEN g[c] ELSE Zero]

\* brain_gradients.max() and .min(), lines 77-78.
MaxOf(g) == CHOOSE v \in {g[c] : c \in Brain} :
                \A c \in Brain : ~Less(v, g[c])
MinOf(g) == CHOOSE v \in {g[c] : c \in Brain} :
                \A c \in Brain : ~Less(g[c], v)

\* a - b and a / b on fractions (b's value is positive where it divides).
Minus(a, b) == Frac(a.n * b.d - b.n * a.d, a.d * b.d)
Over(a, b) == Frac(a.n * b.d, a.d * b.n)

NormalizeNoShift(g) ==
    IF Less(MinOf(g), MaxOf(g))
    THEN [c \in Cells |-> IF Mask(c) THEN Over(g[c], MaxOf(g)) ELSE g[c]]
    ELSE g

\* Lines 76-80.
Normalize(g) ==
    IF Less(MinOf(g), MaxOf(g))
    THEN [c \in Cells |->
            IF Mask(c)
            THEN Over(Minus(g[c], MinOf(g)), Minus(MaxOf(g), MinOf(g)))
            ELSE g[c]]
    ELSE g

\* The k-th smallest (k from 0) of the masked values.
KthSmallest(g, k) ==
    CHOOSE v \in {g[c] : c \in Brain} :
        /\ Cardinality({c \in Brain : ~Less(v, g[c])}) >= k + 1
        /\ Cardinality({c \in Brain : Less(g[c], v)}) <= k

\* np.percentile(gradients[mask], 80), linear interpolation, line 82.
PercentileOf(g) ==
    LET n == Cardinality(Brain)
        pos == Percentile * (n - 1)
        lo == pos \div 100
        rem == pos % 100
        a == KthSmallest(g, lo)
        b == IF rem = 0 THEN a ELSE KthSmallest(g, lo + 1)
        step == Minus(b, a)
    IN  Frac(a.n * step.d * 100 + step.n * rem * a.d, a.d * step.d * 100)

\* Line 83.
Threshold(g) ==
    [c \in Cells |-> IF Less(g[c], PercentileOf(g)) THEN Zero ELSE g[c]]

Patterns == [0..(PatLen - 1) -> 0..MaxGrad]
GridOf(pat) ==
    [c \in Cells |-> Frac(pat[(c[2] + c[1]) % PatLen], 1)]

InitSaliency ==
    /\ envKey = "valid"
    /\ secretKey = "absent"
    /\ fsModels = [p \in ModelPaths |-> NoFile]
    /\ fsSaliency = [f \in SaliencyPaths |-> NoImageFile]
    /\ dirs = {}
    /\ runs = 1
    /\ history = <<>>
    /\ dlAttempts = [p \in ModelPaths |-> 0]
    /\ dlOk = [p \in ModelPaths |-> 0]
    /\ FreshRun
    /\ \E pat \in Patterns : resized = GridOf(pat)
    /\ gradients = resized
    /\ spc = "resized"

pipelineVars == <<envKey, secretKey, fsModels, fsSaliency, dirs, runs,
                  history, dlAttempts, dlOk, pc, failedAt, api_key, paths,
                  uploaded_file, selected_model, model, img_size, img,
                  img_array, prediction, class_index, result,
                  superimposed_img, saliency_map, call, confidence_graph,
                  llmCalls, llmRequest, explanation, ui, stages>>

MaskStep ==
    /\ spc = "resized"
    /\ gradients' = ApplyMask(gradients)
    /\ spc' = "masked"
    /\ UNCHANGED <<resized, pipelineVars>>

NormalizeStep ==
    /\ spc = "masked"
    /\ gradients' = Normalize(gradients)
    /\ spc' = "normalized"
    /\ UNCHANGED <<resized, pipelineVars>>

ThresholdStep ==
    /\ spc = "normalized"
    /\ gradients' = Threshold(gradients)
    /\ spc' = "thresholded"
    /\ UNCHANGED <<resized, pipelineVars>>

NextSaliency ==
    \/ MaskStep
    \/ NormalizeStep
    \/ ThresholdStep

SpecSaliency == InitSaliency /\ [][NextSaliency]_vars

(***************************************************************************)
(* C5: after lines 76-80 the masked values lie in [0,1] with 0 and 1       *)
(* attained when the masked maximum exceeds the masked minimum; when all   *)
(* masked values are equal they are the values line 67 produced; values    *)
(* outside the mask are 0 in both cases.                                   *)
(***************************************************************************)
Degenerate == \A c, e \in Brain : SameValue(resized[c], resized[e])

C5_Normalized ==
    spc = "normalized" =>
        /\ \A c \in Cells \ Brain : SameValue(gradients[c], Zero)
        /\ ~Degenerate =>
              /\ \A c \in Brain : /\ gradients[c].d > 0
                                  /\ ~Less(gradients[c], Zero)
                                  /\ ~Less(Frac(1, 1), gradients[c])
              /\ \E c \in Brain : SameValue(gradients[c], Zero)
              /\ \E c \in Brain : SameValue(gradients[c], Frac(1, 1))
        /\ Degenerate => \A c \in Brain : gradients[c] = resized[c]

C5_Witness ==
    /\ spc = "normalized"
    /\ ~Degenerate
    /\ \E c \in Brain : resized[c].n > 1
    /\ \E c \in Cells \ Brain : resized[c].n > 0

C5_WitnessDegenerate ==
    /\ spc = "normalized"
    /\ Degenerate
    /\ \E c \in Brain : resized[c].n > 1

(***************************************************************************)
(* Helpers of the properties below.                                        *)
(***************************************************************************)
Range(f) == {f[i] : i \in DOMAIN f}
IsPrefix(a, b) == Len(a) <= Len(b) /\ \A i \in 1..Len(a) : a[i] = b[i]
RunEnded == pc \in {"done", "failed"}

\* The content of saliency_maps/<name>.
FileAt(name) == fsSaliency[<<"saliency_maps", name>>]

\* Every run so far, the current one last.
RunsSoFar == Append(history, [upload |-> uploaded_file, call |-> call])
CallsSoFar == {r.call : r \in Range(RunsSoFar)} \ {None}

\* The stage order the orchestration is said to follow.
StageOrder == <<"upload", "select", "load", "preprocess", "predict",
                "saliency", "chart", "explain">>
Artifacts == {"label", "uploaded_image", "saliency_image", "chart",
              "explanation"}

(***************************************************************************)
(* C1: in a run with an upload the stages complete in the order upload,    *)
(* model selection, (model load,) preprocessing, prediction, saliency      *)
(* rendering, confidence chart, explainer; a run that reaches its end has  *)
(* displayed label, images, chart and explanation; and whenever the        *)
(* explainer has been called, saliency_maps/<uploaded filename> already    *)
(* holds this run's composite, which is the image the explainer was given. *)
(***************************************************************************)
C1_StageOrder ==
    /\ IsPrefix(stages, StageOrder)
    /\ stages # <<>> => uploaded_file # None
    /\ llmCalls > 0 =>
          /\ call # None
          /\ FileAt(uploaded_file.name)
                = Encode(call.returned, uploaded_file.name)
          /\ llmRequest.image = FileAt(uploaded_file.name)
          /\ IsPrefix(SubSeq(StageOrder, 1, 7), stages)
    /\ (pc = "done" /\ uploaded_file # None) =>
          /\ stages = StageOrder
          /\ Artifacts \subseteq Range(ui)

C1_Witness ==
    /\ pc = "done"
    /\ uploaded_file # None
    /\ llmCalls = 1

(***************************************************************************)
(* C2: download_models calls gdown.download for a path exactly when the    *)
(* path does not exist at the check of that path; a path that exists is    *)
(* never written again; each check reads its own path only; the pair       *)
(* returned is (cnn_path, xception_path); and over all runs each file is   *)
(* fetched at most once.                                                   *)
(***************************************************************************)
CheckPoint(path) ==
    IF path = "models/cnn_model.h5" THEN "download_cnn"
    ELSE "download_xception"

C2_DownloadStep ==
    /\ \A path \in ModelPaths :
         /\ (dlAttempts'[path] # dlAttempts[path])
               <=> (pc = CheckPoint(path) /\ fsModels[path] = NoFile)
         /\ dlAttempts'[path] \in {dlAttempts[path], dlAttempts[path] + 1}
         /\ fsModels[path] # NoFile => fsModels'[path] = fsModels[path]
         /\ pc # CheckPoint(path) => fsModels'[path] = fsModels[path]
    /\ (pc = "download_xception" /\ pc' # "failed") =>
          paths' = <<"models/cnn_model.h5", "models/xception_model.weights.h5">>

C2_DownloadIffMissing ==
    /\ [](\A path \in ModelPaths : dlOk[path] <= 1)
    /\ [][C2_DownloadStep]_vars

C2_Witness ==
    /\ runs = 2
    /\ pc = "uploader"
    /\ dlAttempts[cnn_path] = 1
    /\ dlOk[cnn_path] = 1
    /\ dlAttempts[xception_path] = 2
    /\ dlOk[xception_path] = 1

(***************************************************************************)
(* C3: the reported label is the label, in the order Glioma, Meningioma,   *)
(* No Tumor, Pituitary, at the lowest index holding the largest            *)
(* probability; that index is the class_index given to                     *)
(* generate_saliency_map, and the confidence given to the explainer is the *)
(* probability at that index.                                              *)
(***************************************************************************)
IsFirstMax(p, i) ==
    /\ \A j \in 1..4 : p[j] <= p[i]
    /\ \A j \in 1..(i - 1) : p[j] < p[i]

C3_ArgmaxLabel ==
    class_index # NoIndex =>
        /\ class_index \in 1..4
        /\ IsFirstMax(prediction, class_index)
        /\ result = <<"Glioma", "Meningioma", "No Tumor",
                      "Pituitary">>[class_index]
        /\ call # None => call.class_index = class_index
        /\ llmRequest # None =>
              /\ llmRequest.model_prediction = result
              /\ llmRequest.confidence = prediction[class_index]

C3_Witness ==
    /\ llmRequest # None
    /\ call # None
    /\ class_index = 2
    /\ prediction[3] = prediction[2]

(***************************************************************************)
(* C4: the preprocessed tensor has shape 1 x 299 x 299 x 3 under           *)
(* 'Transfer Learning - Xception' and 1 x 224 x 224 x 3 under 'Custom      *)
(* CNN', which is the input shape of the model loaded in the same run;     *)
(* every value lies in [0,1]; and img_size is the size paired with that    *)
(* model.                                                                  *)
(***************************************************************************)
C4_TensorShape ==
    img_array # None =>
        /\ img_array.shape =
              IF selected_model = "Transfer Learning - Xception"
              THEN <<1, 299, 299, 3>> ELSE <<1, 224, 224, 3>>
        /\ model.variant = selected_model
        /\ img_array.shape = <<1>> \o model.input_shape
        /\ img_size = <<model.input_shape[1], model.input_shape[2]>>
        /\ img.size = img_size
        /\ img_array.val.d > 0
        /\ 0 <= img_array.val.n
        /\ img_array.val.n <= img_array.val.d

C4_Witness ==
    /\ img_array # None
    /\ selected_model = "Custom CNN"
    /\ uploaded_file.picture.size # <<224, 224>>
    /\ img_array.val.n = 255

(***************************************************************************)
(* C6 as stated: once generate_saliency_map has returned, and when the     *)
(* explainer opens the path, saliency_maps/<uploaded filename> holds the   *)
(* composite and not the upload's bytes; and after every run each path     *)
(* that exists holds the composite of the most recent run that uploaded a  *)
(* file of that name.                                                      *)
(***************************************************************************)
Last(S) == CHOOSE i \in S : \A j \in S : j <= i
UsersOf(name) ==
    {i \in 1..Len(RunsSoFar) :
        /\ RunsSoFar[i].upload # None
        /\ RunsSoFar[i].upload.name = name}
WritersOf(name) ==
    {i \in 1..Len(RunsSoFar) :
        /\ RunsSoFar[i].call # None
        /\ RunsSoFar[i].call.name = name}

HoldsCompositeAfterCall ==
    /\ call # None =>
          /\ FileAt(uploaded_file.name).kind = "composite"
          /\ FileAt(uploaded_file.name).image = saliency_map
    /\ llmRequest # None =>
          /\ llmRequest.image.kind = "composite"
          /\ llmRequest.image.image = saliency_map

C6_Original ==
    /\ HoldsCompositeAfterCall
    /\ RunEnded =>
          \A name \in Names :
             FileAt(name) # NoImageFile =>
                /\ UsersOf(name) # {}
                /\ RunsSoFar[Last(UsersOf(name))].call # None
                /\ FileAt(name) =
                      Encode(RunsSoFar[Last(UsersOf(name))].call.returned,
                             name)

(***************************************************************************)
(* C6 amended: ... and after every run each path holds the composite of    *)
(* the most recent run whose generate_saliency_map call reached its writes *)
(* under that name (nothing, if no run did): a run that ends before the    *)
(* writes leaves the file of its upload's name as it was.                  *)
(***************************************************************************)
C6_LastWriterWins ==
    /\ HoldsCompositeAfterCall
    /\ RunEnded =>
          \A name \in Names :
             IF WritersOf(name) = {} THEN FileAt(name) = NoImageFile
             ELSE FileAt(name) =
                     Encode(RunsSoFar[Last(WritersOf(name))].call.returned,
                            name)

C6_Witness ==
    /\ RunEnded
    /\ runs = 2
    /\ call # None
    /\ history[1].call # None
    /\ history[1].call.name = call.name
    /\ history[1].call.returned # call.returned
    /\ llmRequest # None

(***************************************************************************)
(* C7 as stated: when GOOGLE_API_KEY is missing from environment and       *)
(* secrets, or the key found is invalid, the run fails before model        *)
(* provisioning, before any UI element and before any later stage.         *)
(***************************************************************************)
KeyMissing == envKey = "absent" /\ secretKey = "absent"
KeyFound == IF envKey # "absent" THEN envKey ELSE secretKey
NothingDone ==
    /\ pc \in {"start", "failed"}
    /\ pc = "failed" => failedAt = "secrets"
    /\ ui = <<>>
    /\ stages = <<>>
    /\ llmCalls = 0
    /\ paths = <<>>
    /\ \A path \in ModelPaths : dlAttempts[path] = 0 /\ fsModels[path] = NoFile

C7_Original ==
    (KeyMissing \/ KeyFound = "invalid") => NothingDone

(***************************************************************************)
(* C7 amended: a missing key is fatal at startup (the run fails at the     *)
(* secrets lookup before provisioning, UI and every later stage).  An      *)
(* invalid key that is present is not: the run proceeds as with a valid    *)
(* key, and fails only when generate_explanation calls the service, which  *)
(* then never returns an explanation.                                      *)
(***************************************************************************)
C7_MissingKeyFatal ==
    /\ KeyMissing => NothingDone
    /\ ~KeyMissing => failedAt # "secrets"
    /\ (~KeyMissing /\ KeyFound = "invalid") =>
          /\ api_key \in {Unset, "invalid"}
          /\ explanation = Unset
          /\ llmCalls > 0 => pc = "failed" /\ failedAt = "explain"

C7_Witness ==
    /\ KeyFound = "invalid"
    /\ failedAt = "explain"
    /\ "chart" \in Range(ui)
    /\ dlOk[cnn_path] = 1

C7_WitnessMissing ==
    /\ KeyMissing
    /\ failedAt = "secrets"
    /\ runs = 2

(***************************************************************************)
(* C8: a run calls the generative service at most once, and only with an   *)
(* upload; when the call fails the run ends there, after exactly one call, *)
(* with no explanation displayed, and what the run displayed and wrote     *)
(* before (label, images, chart, the composite file) stays.                *)
(***************************************************************************)
C8_SingleCall ==
    /\ llmCalls <= 1
    /\ llmCalls > 0 => uploaded_file # None
    /\ explanation # Unset => llmCalls = 1
    /\ failedAt = "explain" =>
          /\ pc = "failed"
          /\ llmCalls = 1
          /\ explanation = Unset
          /\ "explanation" \notin Range(ui)
          /\ "explanation_header" \notin Range(ui)
          /\ {"label", "uploaded_image", "saliency_image", "chart"}
                \subseteq Range(ui)
          /\ FileAt(uploaded_file.name)
                = Encode(saliency_map, uploaded_file.name)

C8_Witness ==
    /\ failedAt = "explain"
    /\ api_key = "valid"

(***************************************************************************)
(* C9 as stated: two calls of generate_saliency_map with equal arguments   *)
(* return equal composites and write equal file contents.                  *)
(***************************************************************************)
SameArguments(c, e) ==
    /\ c.model = e.model
    /\ c.img_array = e.img_array
    /\ c.class_index = e.class_index
    /\ c.img_size = e.img_size

C9_Original ==
    \A c, e \in CallsSoFar :
        SameArguments(c, e) =>
            /\ c.returned = e.returned
            /\ c.written = e.written

(***************************************************************************)
(* C9 amended: two calls with equal arguments return equal composites; the *)
(* files they write are equal when the names of the two uploads select the *)
(* same image format (the file is written at the path and in the format    *)
(* that the module-level uploaded_file's name selects).                    *)
(***************************************************************************)
C9_SameComposite ==
    \A c, e \in CallsSoFar :
        SameArguments(c, e) =>
            /\ c.returned = e.returned
            /\ Format(c.name) = Format(e.name) => c.written = e.written

C9_Witness ==
    /\ runs = 2
    /\ call # None
    /\ history[1].call # None
    /\ SameArguments(call, history[1].call)
    /\ call.name # history[1].call.name
    /\ Format(call.name) = Format(history[1].call.name)
    /\ uploaded_file.picture # history[1].upload.picture

(***************************************************************************)
(* C10: a download that leaves a truncated file at a weight path is never  *)
(* repaired by the program: the path is not downloaded again and its       *)
(* content does not change; the download itself does not fail the run; and *)
(* a run that selects the model of that path gets no further than the      *)
(* load, where it fails.                                                   *)
(***************************************************************************)
C10_Step ==
    \A path \in ModelPaths :
        fsModels[path] = "truncated" =>
            /\ fsModels'[path] = "truncated"
            /\ dlAttempts'[path] = dlAttempts[path]

C10_State ==
    /\ failedAt = "download" => \E path \in ModelPaths : fsModels[path] = NoFile
    /\ \A choice \in ModelChoices :
          (selected_model = choice
             /\ fsModels[IF choice = "Custom CNN" THEN cnn_path
                         ELSE xception_path] = "truncated") =>
               /\ pc \in {"load", "failed"}
               /\ pc = "failed" => failedAt = "load"
               /\ model = None

C10_TruncatedStays ==
    /\ []C10_State
    /\ [][C10_Step]_vars

C10_Witness ==
    /\ runs = 2
    /\ failedAt = "load"
    /\ history[1].upload # None
    /\ \E path \in ModelPaths :
          /\ fsModels[path] = "truncated"
          /\ dlAttempts[path] = 1
          /\ path = PathOf(selected_model, paths)

=============================================================================
